---- MODULE Spec2Model ----
(***************************************************************************)
(* A model of saibing/bingo's global package cache                         *)
(* (langserver/internal/cache/cache.go) and of the LSP handler's lifecycle *)
(* gate (langserver/handler.go, langserver/handler_common.go).             *)
(*                                                                         *)
(* Spec         the GlobalCache: Add, Put, Delete, clean, with the lookups *)
(*              Get and GetByURI as operators on its state.                *)
(* SpecSession  LangHandler.Handle, one message at a time, as the          *)
(*              jsonrpc2 read loop calls it through lspHandler.Handle.     *)
(* SpecWalk     GlobalCache.Walk on the caches that Put makes.             *)
(* SpecDispatch lspHandler.Handle: the order in which the messages of a    *)
(*              connection reach their handlers.                           *)
(* SpecLock     goroutines that call the cache at the same time, under     *)
(*              GlobalCache.mu.                                            *)
(***************************************************************************)
EXTENDS Integers, Sequences, FiniteSets, TLC

VARIABLES
    pkgs,       \* the heap of *Package objects: address -> fields
    idMap,      \* GlobalCache.idMap   : id -> *GlobalPackage
    pathMap,    \* GlobalCache.pathMap : pkgPath -> *GlobalPackage
    fileMap,    \* GlobalCache.fileMap : LowerDriver(file) -> *GlobalPackage
    crashed,    \* the goroutine stack overflowed: the Go runtime ended the process
    last,       \* the last cache call: its name, arguments and what it allocated
    cmu,        \* GlobalCache.mu: whether a writer holds it, and how many readers
    hInit,      \* LangHandler.init: the params of the initialize request, or nil
    hConfig,    \* LangHandler.config, or nil
    hCancel,    \* LangHandler.cancel: the registry of cancel functions, or nil
    hProject,   \* LangHandler.project, or nil
    hOverlay,   \* HandlerShared.overlay, or nil
    localPrefix,\* imports.LocalPrefix
    shutdown,   \* HandlerCommon.shutdown
    logged,     \* errLanguageServerAlreadyShutdown was written to the log
    connClosed, \* jsonrpc2.Conn.Close was called
    cur,        \* the request Handle is working on, past the gate of lines 99-118
    resp,       \* what Handle returned last, once it has returned
    initOK,     \* some initialize request has returned a result
    mu,         \* LangHandler.mu is held
    received,   \* the methods of the messages the connection has received, in order
    read,       \* how many of them the read loop has passed to lspHandler.Handle
    loop,       \* the message that lspHandler.Handle is handling in the read loop, or 0
    spawned,    \* the messages being handled in goroutines of their own
    doc,        \* the document mutations applied, in the order they were applied
    done,       \* the messages whose handlers have returned, in that order
    thr         \* the goroutines that call the cache: the call and how far it has got

cvars == <<pkgs, idMap, pathMap, fileMap, crashed, last, cmu>>

hvars == <<hInit, hConfig, hCancel, hProject, hOverlay, localPrefix, shutdown,
           logged, connClosed, cur, resp, initOK, mu>>

dvars == <<received, read, loop, spawned, doc, done>>

lvars == <<thr>>

svars == <<hvars, dvars, lvars>>

vars == <<cvars, svars>>

\* ------------------------------------------------------------------ bounds
MaxPkgs  == 3   \* *Package objects ever allocated
MaxStack == 3   \* recusiveAdd frames the goroutine stack holds
MaxTime  == 1   \* distinct modification times os.Stat reports
MaxClean == 2   \* length of the id list given to clean
MaxReqId == 2
MaxMsgs  == 4   \* messages a connection receives
MaxGoroutines == 2   \* goroutines that call the cache at the same time   \* request ids a client uses

Nil == 0        \* the nil *Package

\* ------------------------------------------------------------------ maps
EmptyMap == <<>>

MapPut(m, k, v) == [x \in (DOMAIN m) \cup {k} |-> IF x = k THEN v ELSE m[x]]

MapPutAll(m, ks, v) == [x \in (DOMAIN m) \cup ks |-> IF x \in ks THEN v ELSE m[x]]

MapDelete(m, ks) == [x \in (DOMAIN m) \ ks |-> m[x]]

MapGet(m, k) == IF k \in DOMAIN m THEN m[k] ELSE Nil

\* A *GlobalPackage is modelled by the value it points to, [pkg, modTime]: put
\* makes a new one on every call and delete drops every index entry of the old
\* one first, so two of them with the same fields are never indexed together.
\* NilGP is the nil *GlobalPackage, read through Package() and ModTime().
NilGP == [pkg |-> Nil, modTime |-> 0]

GPGet(m, k) == IF k \in DOMAIN m THEN m[k] ELSE NilGP

Range(s) == {s[i] : i \in DOMAIN s}

\* ------------------------------------------------------------------ inputs
\* File names are sequences of characters; util.LowerDriver lower-cases them.
LowerChar(c) == IF c = "A" THEN "a" ELSE IF c = "B" THEN "b" ELSE c

LowerDriver(file) == [i \in DOMAIN file |-> LowerChar(file[i])]

FileNames == { <<"A">>, <<"a">>, <<"b">>, <<"c">> }

\* The packages.Package values a loader hands to Add: ID, PkgPath,
\* CompiledGoFiles and Imports (the numbers of the imported nodes).
\*   1, 2  both import 3, and 2 imports 1 as well
\*   3     a leaf;  6 is another id with 3's PkgPath and file (a test variant)
\*   4, 5  import each other
\*   7     node 1's id, loaded again with other files and no imports
Node(n) ==
    CASE n = 1 -> [ID |-> <<"m", "/", "a">>, PkgPath |-> "m/a",
                   CompiledGoFiles |-> << <<"A">> >>, Imports |-> {3}]
      [] n = 2 -> [ID |-> <<"m", "/", "b">>, PkgPath |-> "m/b",
                   CompiledGoFiles |-> << <<"c">> >>, Imports |-> {1, 3}]
      [] n = 3 -> [ID |-> <<"x", ".", "y">>, PkgPath |-> "x.y",
                   CompiledGoFiles |-> << <<"b">> >>, Imports |-> {}]
      [] n = 4 -> [ID |-> <<"c">>, PkgPath |-> "c",
                   CompiledGoFiles |-> <<>>, Imports |-> {5}]
      [] n = 5 -> [ID |-> <<"d">>, PkgPath |-> "d",
                   CompiledGoFiles |-> <<>>, Imports |-> {4}]
      [] n = 6 -> [ID |-> <<"x", ".", "y", "t">>, PkgPath |-> "x.y",
                   CompiledGoFiles |-> << <<"b">> >>, Imports |-> {}]
      [] n = 7 -> [ID |-> <<"m", "/", "a">>, PkgPath |-> "m/a",
                   CompiledGoFiles |-> << <<"a">>, <<"b">> >>, Imports |-> {}]

Nodes == 1..7

IDs == {Node(n).ID : n \in Nodes}

PkgPaths == {Node(n).PkgPath : n \in Nodes}

\* Go ranges over the Imports map in an unspecified order: a node with several
\* imports is walked in ascending or descending order of node number.
MultiNodes == {n \in Nodes : Cardinality(Node(n).Imports) > 1}

RECURSIVE SetToSeq(_, _)
SetToSeq(S, desc) ==
    IF S = {} THEN <<>>
    ELSE LET x == IF desc THEN CHOOSE y \in S : \A z \in S : z <= y
                          ELSE CHOOSE y \in S : \A z \in S : y <= z
         IN <<x>> \o SetToSeq(S \ {x}, desc)

ImportOrder(n, rev) == SetToSeq(Node(n).Imports, n \in rev)

RECURSIVE Reach(_, _)
Reach(S, k) ==
    IF k = 0 THEN S ELSE Reach(S \cup UNION {Node(m).Imports : m \in S}, k - 1)

\* the orders that matter to an Add rooted at n
Orders(n) == SUBSET (MultiNodes \cap Reach({n}, Cardinality(Nodes)))

\* os.Stat of a file: its modification time, or StatErr. The files stat'ed
\* during one call all answer alike.
StatErr == -1
ZeroTime == 0
StatAnswers == {StatErr} \cup (1..MaxTime)
StatResults == {[f \in FileNames |-> t] : t \in StatAnswers}
StatFound == [f \in FileNames |-> MaxTime]

\* ------------------------------------------------------------------ cache.go
\* The cache as a record, so that the helpers compose as the code's calls do.
CacheState == [pkgs |-> pkgs, idMap |-> idMap,
               pathMap |-> pathMap, fileMap |-> fileMap, ok |-> TRUE]

create(n) == [id |-> Node(n).ID, pkgPath |-> Node(n).PkgPath,
              files |-> Node(n).CompiledGoFiles, imports |-> EmptyMap]

getPackageModTime(pkg, stat) ==
    IF Len(pkg.files) = 0 THEN ZeroTime
    ELSE IF stat[pkg.files[1]] = StatErr THEN ZeroTime
    ELSE stat[pkg.files[1]]

FileKeys(pkg) == {LowerDriver(f) : f \in Range(pkg.files)}

\* delete that leaves the path index as it is
deleteKeepsPath(st, id) ==
    IF id \notin DOMAIN st.idMap THEN st
    ELSE [st EXCEPT !.idMap = MapDelete(@, {id}),
                    !.fileMap = MapDelete(@, FileKeys(st.pkgs[st.idMap[id].pkg]))]

\* delete that also takes the unit out of the imports of the units that
\* depend on it
deleteUnlinks(st, id) ==
    IF id \notin DOMAIN st.idMap THEN st
    ELSE LET p == st.idMap[id]
             pkg == st.pkgs[p.pkg]
             Unlinked(m) == MapDelete(m, {k \in DOMAIN m : m[k] = p.pkg})
         IN [st EXCEPT !.idMap = MapDelete(@, {id}),
                       !.pathMap = MapDelete(@, {pkg.pkgPath}),
                       !.fileMap = MapDelete(@, FileKeys(pkg)),
                       !.pkgs = [b \in DOMAIN st.pkgs |->
                                    [st.pkgs[b] EXCEPT !.imports = Unlinked(st.pkgs[b].imports)]]]

delete(st, id) ==
    IF id \notin DOMAIN st.idMap THEN st
    ELSE LET p == st.idMap[id]
             pkg == st.pkgs[p.pkg]
         IN [st EXCEPT !.idMap = MapDelete(@, {id}),
                       !.pathMap = MapDelete(@, {pkg.pkgPath}),
                       !.fileMap = MapDelete(@, FileKeys(pkg))]

put(st, a, stat) ==
    LET pkg == st.pkgs[a]
        s1 == delete(st, pkg.id)
        p == [pkg |-> a, modTime |-> getPackageModTime(pkg, stat)]
    IN [s1 EXCEPT !.idMap = MapPut(@, pkg.id, p),
                  !.pathMap = MapPut(@, pkg.pkgPath, p),
                  !.fileMap = MapPutAll(@, FileKeys(pkg), p)]

\* parent.imports[key] = target, when there is a parent
SetImport(st, parent, key, target) ==
    IF parent = Nil THEN st
    ELSE [st EXCEPT !.pkgs[parent].imports = MapPut(@, key, target)]

\* the look-up of line 279 that never finds the id
IsCachedNever(st, id) == FALSE

\* the look-up of line 279 that passes over a unit with no time stamp
IsCachedWithModTime(st, id) == id \in DOMAIN st.idMap /\ st.idMap[id].modTime # ZeroTime

IsCached(st, id) == id \in DOMAIN st.idMap

RECURSIVE recusiveAdd(_, _, _, _, _, _)
RECURSIVE addImports(_, _, _, _, _, _)

\* One call of recusiveAdd in frame number depth. A call the stack has no room
\* for ends the whole Add with ok = FALSE.
recusiveAdd(st, n, parent, depth, rev, stat) ==
    IF ~st.ok THEN st
    ELSE IF depth > MaxStack THEN [st EXCEPT !.ok = FALSE]
    ELSE IF IsCached(st, Node(n).ID)
    THEN SetImport(st, parent, Node(n).PkgPath, st.idMap[Node(n).ID].pkg)
    ELSE LET s1 == [st EXCEPT !.pkgs = Append(@, create(n))]
             p == Len(s1.pkgs)
             s2 == addImports(s1, ImportOrder(n, rev), p, depth + 1, rev, stat)
         IN IF ~s2.ok THEN s2
            ELSE SetImport(put(s2, p, stat), parent, s2.pkgs[p].pkgPath, p)

addImports(st, ips, parent, depth, rev, stat) ==
    IF ips = <<>> THEN st
    ELSE addImports(recusiveAdd(st, Head(ips), parent, depth, rev, stat),
                    Tail(ips), parent, depth, rev, stat)

RECURSIVE cleanLoop(_, _)
cleanLoop(st, idList) ==
    IF idList = <<>> THEN st
    ELSE cleanLoop(delete(st, Head(idList)), Tail(idList))

\* Get and GetByURI, on the cache as it stands
Get(pkgPath) == GPGet(pathMap, pkgPath)

GetByURI(filename) == GPGet(fileMap, LowerDriver(filename)).pkg

\* ------------------------------------------------------------------ actions
Install(st) ==
    /\ pkgs' = st.pkgs
    /\ idMap' = st.idMap
    /\ pathMap' = st.pathMap
    /\ fileMap' = st.fileMap

Fits(st) == Len(st.pkgs) <= MaxPkgs

\* The record of the last call: op, its name; n, the node Add was given; pkg,
\* the *Package that Delete found under its id and removed, or that Add
\* created for its root.
\* For Walk: ranks, the prefixes it was given; fails, the ids of the units
\* its walkFunc fails on; visited, the *Packages handed to walkFunc, in order;
\* err, the error returned: the id of the unit that walkFunc failed on, or
\* <<>> for nil.
NoCall == [op |-> "none", n |-> 0, pkg |-> Nil, ranks |-> <<>>, fails |-> {},
           visited |-> <<>>, err |-> <<>>]

\* sync.RWMutex, as GlobalCache.mu: w, a writer holds it; r, the readers
\* that hold it
NoLock == [w |-> FALSE, r |-> 0]

CanLock(m) == ~m.w /\ m.r = 0

CanRLock(m) == ~m.w

RLock(m) == [m EXCEPT !.r = @ + 1]

RUnlock(m) == [m EXCEPT !.r = @ - 1]

RootCreated(n) == IF IsCached(CacheState, Node(n).ID) THEN Nil ELSE Len(pkgs) + 1

\* GlobalCache.Add that returns
Add(n, rev, stat) ==
    LET st == recusiveAdd(CacheState, n, Nil, 1, rev, stat)
    IN /\ ~crashed
       /\ CanLock(cmu)
       /\ st.ok
       /\ Fits(st)
       /\ Install(st)
       /\ last' = [NoCall EXCEPT !.op = "Add", !.n = n, !.pkg = RootCreated(n)]
       /\ UNCHANGED <<crashed, cmu, svars>>

\* GlobalCache.Add whose recursion exhausts the stack: "fatal error: stack
\* overflow" is no panic a deferred recover catches, the process and with it
\* the cache are gone.
AddOverflow(n, rev, stat) ==
    LET st == recusiveAdd(CacheState, n, Nil, 1, rev, stat)
    IN /\ ~crashed
       /\ CanLock(cmu)
       /\ ~st.ok
       /\ crashed' = TRUE
       /\ last' = [NoCall EXCEPT !.op = "Add", !.n = n]
       /\ pkgs' = <<>>
       /\ idMap' = EmptyMap
       /\ pathMap' = EmptyMap
       /\ fileMap' = EmptyMap
       /\ UNCHANGED <<cmu, svars>>

\* GlobalCache.Put, of a *Package made for the call from node n
Put(n, stat) ==
    LET s1 == [CacheState EXCEPT !.pkgs = Append(@, create(n))]
        st == put(s1, Len(s1.pkgs), stat)
    IN /\ ~crashed
       /\ CanLock(cmu)
       /\ Fits(st)
       /\ Install(st)
       /\ last' = [NoCall EXCEPT !.op = "Put"]
       /\ UNCHANGED <<crashed, cmu, svars>>

\* GlobalCache.Delete
Delete(id) ==
    /\ ~crashed
    /\ CanLock(cmu)
    /\ Install(delete(CacheState, id))
    /\ last' = [NoCall EXCEPT !.op = "Delete", !.pkg = GPGet(idMap, id).pkg]
    /\ UNCHANGED <<crashed, cmu, svars>>

\* GlobalCache.clean
Clean(idList) ==
    /\ ~crashed
    /\ Len(idList) = 0 \/ CanLock(cmu)
    /\ Install(IF Len(idList) = 0 THEN CacheState ELSE cleanLoop(CacheState, idList))
    /\ last' = [NoCall EXCEPT !.op = "Clean"]
    /\ UNCHANGED <<crashed, cmu, svars>>

\* The id lists given to clean. delete(a) and delete(b) commute and repeat
\* without effect, so the lists are taken without repetition, in the order of
\* the nodes.
NodeOf(id) == CHOOSE n \in Nodes : Node(n).ID = id /\ \A m \in Nodes : Node(m).ID = id => n <= m

IdLists == {l \in UNION {[1..k -> IDs] : k \in 0..MaxClean} :
                \A i \in 1..(Len(l) - 1) : NodeOf(l[i]) < NodeOf(l[i + 1])}

\* ------------------------------------------------------------------ Walk
\* strings.HasPrefix, strings.Contains, on ids as sequences of characters
HasPrefix(s, prefix) == Len(prefix) <= Len(s) /\ SubSeq(s, 1, Len(prefix)) = prefix

Contains(s, c) == \E i \in 1..Len(s) : s[i] = c

\* the byte of a character, by which Go compares strings
Ord(c) ==
    CASE c = "." -> 46 [] c = "/" -> 47 [] c = "a" -> 97 [] c = "b" -> 98
      [] c = "c" -> 99 [] c = "d" -> 100 [] c = "m" -> 109 [] c = "t" -> 116
      [] c = "x" -> 120 [] c = "y" -> 121

\* a <= b on Go strings
RECURSIVE StrLeq(_, _)
StrLeq(a, b) ==
    IF a = <<>> THEN TRUE
    ELSE IF b = <<>> THEN FALSE
    ELSE IF Ord(Head(a)) # Ord(Head(b)) THEN Ord(Head(a)) < Ord(Head(b))
    ELSE StrLeq(Tail(a), Tail(b))

\* getRank that does not tell the ids with a "." from the others
getRankNoDot(id, ranks) ==
    IF \E i \in 1..Len(ranks) : HasPrefix(id, ranks[i])
    THEN (CHOOSE i \in 1..Len(ranks) :
              HasPrefix(id, ranks[i]) /\ \A j \in 1..(i - 1) : ~HasPrefix(id, ranks[j])) - 1
    ELSE Len(ranks)

\* getRank, lines 223-236
getRank(id, ranks) ==
    IF \E i \in 1..Len(ranks) : HasPrefix(id, ranks[i])
    THEN (CHOOSE i \in 1..Len(ranks) :
              HasPrefix(id, ranks[i]) /\ \A j \in 1..(i - 1) : ~HasPrefix(id, ranks[j])) - 1
    ELSE IF Contains(id, ".") THEN Len(ranks)
    ELSE Len(ranks) + 1

\* the less function of lines 238-250
less(a, b, ranks) ==
    LET r1 == getRank(a, ranks)
        r2 == getRank(b, ranks)
    IN IF r1 < r2 THEN TRUE
       ELSE IF r1 = r2 THEN StrLeq(a, b)
       ELSE FALSE

\* sort.Slice on a slice this short is an insertion sort: each element moves
\* left while it is less than the one before it
RECURSIVE insert(_, _, _)
insert(sorted, x, ranks) ==
    IF sorted = <<>> THEN <<x>>
    ELSE IF less(x, sorted[Len(sorted)], ranks)
    THEN Append(insert(SubSeq(sorted, 1, Len(sorted) - 1), x, ranks), sorted[Len(sorted)])
    ELSE Append(sorted, x)

RECURSIVE sortSlice(_, _)
sortSlice(idList, ranks) ==
    IF idList = <<>> THEN <<>>
    ELSE insert(sortSlice(SubSeq(idList, 1, Len(idList) - 1), ranks), idList[Len(idList)], ranks)

\* The orders in which "for id := range c.idMap" may yield the ids: any.
Snapshots == {l \in [1..Cardinality(DOMAIN idMap) -> DOMAIN idMap] :
                 \A i, j \in 1..Len(l) : i # j => l[i] # l[j]}

\* c.get, lines 69-81
get(id) == GPGet(idMap, id).pkg

\* walk that goes on after walkFunc failed, and returns the first error
RECURSIVE walkOn(_, _)
walkOn(idList, fails) ==
    IF idList = <<>> THEN [visited |-> <<>>, err |-> <<>>]
    ELSE LET rest == walkOn(Tail(idList), fails)
         IN [visited |-> <<get(Head(idList))>> \o rest.visited,
             err |-> IF Head(idList) \in fails THEN Head(idList) ELSE rest.err]

\* walk, lines 255-264: walkFunc fails on the units whose id is in fails
RECURSIVE walk(_, _)
walk(idList, fails) ==
    IF idList = <<>> THEN [visited |-> <<>>, err |-> <<>>]
    ELSE IF Head(idList) \in fails
    THEN [visited |-> <<get(Head(idList))>>, err |-> Head(idList)]
    ELSE LET rest == walk(Tail(idList), fails)
         IN [visited |-> <<get(Head(idList))>> \o rest.visited, err |-> rest.err]

\* the prefixes given to Walk
RankLists == {<<>>, << <<"m", "/">> >>, << <<"x", ".">>, <<"m", "/">> >>}

\* the sets of ids on which walkFunc fails: of cached ids, an id that is not
\* cached is never handed to walkFunc
FailSets == {f \in SUBSET (DOMAIN idMap) : Cardinality(f) <= 2}

\* GlobalCache.Walk, lines 209-253: the lock is taken shared, and given back
\* by the deferred RUnlock however walk returns
Walk(ranks, snapshot, fails) ==
    LET res == walk(sortSlice(snapshot, ranks), fails)
    IN /\ ~crashed
       /\ CanRLock(cmu)
       /\ cmu' = RUnlock(RLock(cmu))
       /\ last' = [NoCall EXCEPT !.op = "Walk", !.ranks = ranks, !.fails = fails,
                                 !.visited = res.visited, !.err = res.err]
       /\ UNCHANGED <<pkgs, idMap, pathMap, fileMap, crashed, svars>>

InitCache ==
    /\ pkgs = <<>>
    /\ idMap = EmptyMap
    /\ pathMap = EmptyMap
    /\ fileMap = EmptyMap
    /\ crashed = FALSE
    /\ last = NoCall
    /\ cmu = NoLock

NextCache ==
    \/ \E n \in Nodes, stat \in StatResults : \E rev \in Orders(n) : Add(n, rev, stat)
    \/ \E n \in Nodes, stat \in StatResults : \E rev \in Orders(n) : AddOverflow(n, rev, stat)
    \/ \E n \in Nodes, stat \in StatResults : Put(n, stat)
    \/ \E id \in IDs : Delete(id)
    \/ \E idList \in IdLists : Clean(idList)

\* ------------------------------------------------------------------ the lock
\* The calls of the cache made by goroutines that run at the same time. Each
\* call is taken apart at the points where another goroutine can run: the call
\* (pc "called"), the lock taken ("locked" or "rlocked"), for a mutation the
\* writes to idMap ("id"), pathMap ("path") and fileMap ("file"), for a
\* look-up the read ("read"), and the lock given back (pc "idle").
Goroutines == 1..MaxGoroutines

Mutations == {"Add", "Put", "Delete", "Clean"}
Lookups == {"Get", "GetByURI", "Walk"}

\* Add that takes the lock shared
LocksAddShared(op) == IF op \in Lookups \/ op = "Add" THEN "RLock" ELSE "Lock"

\* the lock each call takes: c.Lock() at lines 151, 180, 191 and 272,
\* c.RLock() at lines 168, 202 and 215
Locks(op) == IF op \in Lookups THEN "RLock" ELSE "Lock"

\* the calls: Add of m/a, which brings x.y with it, and of x.y; Put of x.yt,
\* which shares x.y's path and file; Delete of x.y; clean of both; the look-ups
NoArg == [n |-> 0, id |-> <<>>, ids |-> <<>>]

LockCalls ==
    {[op |-> "Add", arg |-> [NoArg EXCEPT !.n = n]] : n \in {1, 3}}
    \cup {[op |-> "Put", arg |-> [NoArg EXCEPT !.n = 6]]}
    \cup {[op |-> "Delete", arg |-> [NoArg EXCEPT !.id = Node(3).ID]]}
    \cup {[op |-> "Clean", arg |-> [NoArg EXCEPT !.ids = <<Node(1).ID, Node(3).ID>>]]}
    \cup {[op |-> op, arg |-> NoArg] : op \in Lookups}

\* what the mutation makes of the cache it finds
Target(call) ==
    CASE call.op = "Add" -> recusiveAdd(CacheState, call.arg.n, Nil, 1, {}, StatFound)
      [] call.op = "Put" ->
            LET s1 == [CacheState EXCEPT !.pkgs = Append(@, create(call.arg.n))]
            IN put(s1, Len(s1.pkgs), StatFound)
      [] call.op = "Delete" -> delete(CacheState, call.arg.id)
      [] call.op = "Clean" -> cleanLoop(CacheState, call.arg.ids)

\* A goroutine between calls. For Walk: ids, the ids of its sorted snapshot
\* that walk has yet to visit; visited, what c.get gave for the ids visited.
Idle == [call |-> [op |-> "none", arg |-> NoArg], pc |-> "idle",
         st |-> [CacheState EXCEPT !.pkgs = <<>>, !.idMap = EmptyMap,
                                   !.pathMap = EmptyMap, !.fileMap = EmptyMap],
         ids |-> <<>>, visited |-> <<>>]

\* Walk that holds the lock for its snapshot only
ReleasePointSnapshot(op) == IF op = "Walk" THEN "snapshot" ELSE "return"

\* where a look-up gives the lock back: Get and GetByURI after their read
\* (lines 170, 204), Walk by the deferred RUnlock of line 216, when it returns
ReleasePoint(op) == "return"

\* goroutine g calls the cache
Call(g, call) ==
    /\ thr[g].pc = "idle"
    /\ thr' = [thr EXCEPT ![g] = [Idle EXCEPT !.call = call, !.pc = "called"]]
    /\ UNCHANGED <<pkgs, idMap, pathMap, fileMap, crashed, last, cmu, hvars, dvars>>

\* c.Lock() returns, or c.RLock() of a mutation that takes the lock shared;
\* the *Packages of the call are made
AcquireLock(g) ==
    LET st == Target(thr[g].call)
    IN /\ thr[g].pc = "called"
       /\ thr[g].call.op \in Mutations
       /\ IF Locks(thr[g].call.op) = "Lock"
          THEN CanLock(cmu) /\ cmu' = [cmu EXCEPT !.w = TRUE]
          ELSE CanRLock(cmu) /\ cmu' = RLock(cmu)
       /\ st.ok
       /\ Fits(st)
       /\ pkgs' = st.pkgs
       /\ thr' = [thr EXCEPT ![g].pc = "locked", ![g].st = [st EXCEPT !.pkgs = <<>>]]
       /\ UNCHANGED <<idMap, pathMap, fileMap, crashed, last, hvars, dvars>>

\* the writes of the mutation, index by index
WriteIndex(g) ==
    /\ thr[g].pc \in {"locked", "id", "path"}
    /\ CASE thr[g].pc = "locked" ->
              /\ idMap' = thr[g].st.idMap
              /\ thr' = [thr EXCEPT ![g].pc = "id"]
              /\ UNCHANGED <<pathMap, fileMap>>
         [] thr[g].pc = "id" ->
              /\ pathMap' = thr[g].st.pathMap
              /\ thr' = [thr EXCEPT ![g].pc = "path"]
              /\ UNCHANGED <<idMap, fileMap>>
         [] thr[g].pc = "path" ->
              /\ fileMap' = thr[g].st.fileMap
              /\ thr' = [thr EXCEPT ![g].pc = "file"]
              /\ UNCHANGED <<idMap, pathMap>>
    /\ UNCHANGED <<pkgs, crashed, last, cmu, hvars, dvars>>

\* the deferred c.Unlock()
ReleaseLock(g) ==
    /\ thr[g].pc = "file"
    /\ cmu' = IF Locks(thr[g].call.op) = "Lock" THEN [cmu EXCEPT !.w = FALSE] ELSE RUnlock(cmu)
    /\ thr' = [thr EXCEPT ![g] = Idle]
    /\ UNCHANGED <<pkgs, idMap, pathMap, fileMap, crashed, last, hvars, dvars>>

\* c.RLock() of a look-up returns
AcquireRLock(g) ==
    /\ thr[g].pc = "called"
    /\ thr[g].call.op \in Lookups
    /\ CanRLock(cmu)
    /\ cmu' = RLock(cmu)
    /\ thr' = [thr EXCEPT ![g].pc = "rlocked"]
    /\ UNCHANGED <<pkgs, idMap, pathMap, fileMap, crashed, last, hvars, dvars>>

\* the look-up reads the indices; Walk takes its snapshot of the ids, in any
\* order, and sorts it (lines 218-251, with no prefixes)
Read(g) ==
    /\ thr[g].pc = "rlocked"
    /\ \E snapshot \in Snapshots :
          thr' = [thr EXCEPT ![g].pc = "read",
                             ![g].ids = IF thr[g].call.op = "Walk"
                                        THEN sortSlice(snapshot, <<>>) ELSE <<>>]
    /\ cmu' = IF ReleasePoint(thr[g].call.op) = "snapshot" THEN RUnlock(cmu) ELSE cmu
    /\ UNCHANGED <<pkgs, idMap, pathMap, fileMap, crashed, last, hvars, dvars>>

\* one turn of walk's loop, lines 256-261: c.get(id), and walkFunc on what it gave
Visit(g) ==
    /\ thr[g].pc = "read"
    /\ thr[g].call.op = "Walk"
    /\ thr[g].ids # <<>>
    /\ thr' = [thr EXCEPT ![g].ids = Tail(@),
                          ![g].visited = Append(@, get(Head(thr[g].ids)))]
    /\ UNCHANGED <<pkgs, idMap, pathMap, fileMap, crashed, last, cmu, hvars, dvars>>

\* c.RUnlock() of the look-up; Walk returns when its loop has ended or
\* walkFunc has failed
ReleaseRLock(g) ==
    /\ thr[g].pc = "read"
    /\ thr[g].call.op = "Walk" => thr[g].ids = <<>> \/ thr[g].visited # <<>>
    /\ cmu' = IF ReleasePoint(thr[g].call.op) = "return" THEN RUnlock(cmu) ELSE cmu
    /\ thr' = [thr EXCEPT ![g] = Idle]
    /\ UNCHANGED <<pkgs, idMap, pathMap, fileMap, crashed, last, hvars, dvars>>

InitLock == thr = [g \in Goroutines |-> Idle]

NextLock ==
    \/ \E g \in Goroutines, call \in LockCalls : Call(g, call)
    \/ \E g \in Goroutines : AcquireLock(g)
    \/ \E g \in Goroutines : WriteIndex(g)
    \/ \E g \in Goroutines : ReleaseLock(g)
    \/ \E g \in Goroutines : AcquireRLock(g)
    \/ \E g \in Goroutines : Read(g)
    \/ \E g \in Goroutines : Visit(g)
    \/ \E g \in Goroutines : ReleaseRLock(g)

\* ------------------------------------------------------------------ handler.go
\* The methods of the switch of Handle: the five of the protocol's life cycle,
\* two of the queries (every query case has the shape of hover's), two of the
\* document notifications (one case of the switch), and one it does not know.
LifecycleMethods == {"initialize", "initialized", "shutdown", "exit", "$/cancelRequest"}
QueryMethods == {"textDocument/hover", "textDocument/rename"}
FileSystemMethods == {"textDocument/didOpen", "textDocument/didChange"}
Methods == LifecycleMethods \cup QueryMethods \cup FileSystemMethods \cup {"workspace/unknown"}

\* jsonrpc2.Request: Method, Notif, ID and Params. A notification has no id
\* (0). Params are absent, or do not decode, or decode to val: the
\* InitializeParams of initialize, the id of $/cancelRequest.
Absent == "absent"

InitOptions == [BuildTags : {<<>>, <<"t1", "t2">>},
                GoimportsLocalPrefix : {Absent, "corp"},
                GlobalCacheStyle : {Absent, "on-demand"},
                DiagnosticsStyle : {Absent, "instant"}]

InitParams == [RootPath : {"/w", "file:///w"}, InitializationOptions : InitOptions]

NoOptions == [BuildTags |-> <<>>, GoimportsLocalPrefix |-> Absent,
              GlobalCacheStyle |-> Absent, DiagnosticsStyle |-> Absent]

NoVal == [RootPath |-> "", InitializationOptions |-> NoOptions, ID |-> 0]

ParamsOf(method) ==
    {[kind |-> k, val |-> NoVal] : k \in {"nil", "bad"}}
    \cup IF method = "initialize"
         THEN {[kind |-> "ok", val |-> [NoVal EXCEPT !.RootPath = ip.RootPath,
                                                     !.InitializationOptions = ip.InitializationOptions]] :
                  ip \in InitParams}
         ELSE IF method = "$/cancelRequest"
         THEN {[kind |-> "ok", val |-> [NoVal EXCEPT !.ID = i]] : i \in 1..MaxReqId}
         ELSE {[kind |-> "ok", val |-> NoVal]}

Requests ==
    UNION {{[Method |-> m, Notif |-> (i = 0), ID |-> i, Params |-> ps] :
               i \in 0..MaxReqId, ps \in ParamsOf(m)} : m \in Methods}

\* LangHandler.DefaultConfig, set by NewHandler
DefaultConfig == [BuildTags |-> <<>>, GoimportsLocalPrefix |-> "",
                  GlobalCacheStyle |-> "always", DiagnosticsStyle |-> "onsave"]

\* Config.Apply: the options over the defaults, field by field
ApplyField(def, opt) == IF opt = Absent THEN def ELSE opt

ApplyTags(def, opt) == IF opt = <<>> THEN def ELSE opt

Apply(c, o) ==
    [BuildTags |-> ApplyTags(c.BuildTags, o.BuildTags),
     GoimportsLocalPrefix |-> ApplyField(c.GoimportsLocalPrefix, o.GoimportsLocalPrefix),
     GlobalCacheStyle |-> ApplyField(c.GlobalCacheStyle, o.GlobalCacheStyle),
     DiagnosticsStyle |-> ApplyField(c.DiagnosticsStyle, o.DiagnosticsStyle)]

\* util.IsURI, util.PathToURI
IsURI(s) == s = "file:///w"

PathToURI(s) == IF s = "/w" THEN "file:///w" ELSE s

\* the nil values of the handler's pointer fields
NilInit == [set |-> FALSE, RootPath |-> "", InitializationOptions |-> NoOptions]
NilConfig == [set |-> FALSE, c |-> DefaultConfig]
NilCancel == [gen |-> 0, m |-> {}]
NilProject == [gen |-> 0, rootPath |-> "", buildFlags |-> <<>>, cacheStyle |-> ""]
NilOverlay == [set |-> FALSE, style |-> ""]

\* cancel.go: NewCancel, cancel.WithCancel and the function it returns,
\* cancel.Cancel
NewCancel(old) == [gen |-> old.gen + 1, m |-> {}]

WithCancel(c, id) == [c EXCEPT !.m = @ \cup {id}]

CancelFunc(c, id) == [c EXCEPT !.m = @ \ {id}]

CancelID(c, id) == [c EXCEPT !.m = @ \ {id}]

\* errors
NoErr == "nil"
ErrMustBeInitialized == "languageserver must be initialized"
ErrAlreadyInitialized == "language server is already initialized"
ErrIsShuttingDown == "language server is shutting down"
ErrInvalidParams == "CodeInvalidParams"
ErrUnmarshal == "json.Unmarshal"
ErrMethodNotFound == "CodeMethodNotFound"
ErrProjectInit == "project.Init"
ErrHandler == "handler error"
ErrPanic == "unexpected panic"

\* handler_common.go: CheckReady
CheckReadyNever(sd) == NoErr

CheckReady(sd) == IF sd THEN ErrIsShuttingDown ELSE NoErr

\* handler_common.go: ShutDown, as [shutdown, logged]
ShutDown(sd, lg) == [shutdown |-> TRUE, logged |-> (lg \/ sd)]

\* line 101
NotInitialized(req, init) == req.Method # "initialize" /\ ~init.set

\* line 114
RegistersNever(cancelManager, req) == FALSE

Registers(cancelManager, req) == cancelManager.gen # 0 /\ ~req.Notif

\* line 122
AlreadyInitializedNever(init) == FALSE

AlreadyInitialized(init) == init.set

\* the config, the registry and the project (with its cache) of the session
Owned == <<hConfig, hCancel, hProject>>

\* The request in Handle: the request, whether line 116 registered it, and
\* the state Handle was called in: whether an initialize had succeeded,
\* whether shutdown was set, and what the session owned.
NoReq == [active |-> FALSE, Method |-> "", Notif |-> TRUE, ID |-> 0,
          Params |-> [kind |-> "nil", val |-> NoVal], registered |-> FALSE,
          wasInitOK |-> FALSE, wasShutdown |-> FALSE,
          pre |-> <<NilConfig, NilCancel, NilProject>>]

\* What Handle returned: the request and the kind of its params, the error, whether the switch was
\* reached, the state Handle was called in, whether the session owns what it
\* owned then, and whether the connection is closed.
NoResp == [Method |-> "", Notif |-> TRUE, ID |-> 0, kind |-> "nil", err |-> NoErr,
           admitted |-> FALSE,
           wasInitOK |-> FALSE, wasShutdown |-> FALSE, kept |-> TRUE, closed |-> FALSE]

\* util.Panicf(recover(), "%v", req.Method): the error a recovered panic
\* becomes, which names the method
Panicf(r, method) == IF r = ErrPanic THEN ErrPanic \o ": " \o method ELSE r

\* Lines 99-111: the message is turned away at the gate.
HandleRejected(req) ==
    LET err == IF NotInitialized(req, hInit) THEN ErrMustBeInitialized
               ELSE IF req.Method = "exit" THEN NoErr
               ELSE CheckReady(shutdown)
    IN /\ ~connClosed
       /\ ~cur.active
       /\ ~mu
       /\ NotInitialized(req, hInit) \/ CheckReady(shutdown) # NoErr
       /\ resp' = [Method |-> req.Method, Notif |-> req.Notif, ID |-> req.ID,
                   kind |-> req.Params.kind, err |-> err,
                   admitted |-> FALSE, wasInitOK |-> initOK, wasShutdown |-> shutdown,
                   kept |-> TRUE, closed |-> connClosed]
       /\ UNCHANGED <<hInit, hConfig, hCancel, hProject, hOverlay, localPrefix, shutdown,
                      logged, connClosed, cur, initOK, mu, dvars, lvars, cvars>>

\* Lines 99-118: the message passes the gate; a request is registered with the
\* registry read at line 100.
HandleAdmitted(req) ==
    /\ ~connClosed
    /\ ~cur.active
    /\ ~mu
    /\ ~NotInitialized(req, hInit)
    /\ CheckReady(shutdown) = NoErr
    /\ cur' = [active |-> TRUE, Method |-> req.Method, Notif |-> req.Notif, ID |-> req.ID,
               Params |-> req.Params, registered |-> Registers(hCancel, req),
               wasInitOK |-> initOK, wasShutdown |-> shutdown, pre |-> Owned]
    /\ hCancel' = IF Registers(hCancel, req) THEN WithCancel(hCancel, req.ID) ELSE hCancel
    /\ resp' = NoResp
    /\ UNCHANGED <<hInit, hConfig, hProject, hOverlay, localPrefix, shutdown, logged,
                   connClosed, initOK, mu, dvars, lvars, cvars>>

\* The fields of the handler as a record, for the cases of the switch.
Handler == [hInit |-> hInit, hConfig |-> hConfig, hCancel |-> hCancel, hProject |-> hProject,
            hOverlay |-> hOverlay, localPrefix |-> localPrefix, shutdown |-> shutdown,
            logged |-> logged, connClosed |-> connClosed, mu |-> mu, err |-> NoErr]

\* strings.Join
RECURSIVE Join(_, _)
Join(elems, sep) ==
    IF Len(elems) = 0 THEN ""
    ELSE IF Len(elems) = 1 THEN elems[1]
    ELSE elems[1] \o sep \o Join(Tail(elems), sep)

\* doInit, lines 369-388, with h.mu held; initErr is what project.Init returns,
\* or ErrPanic when it panics
doInitLocked(h, init, initErr) ==
    LET config == Apply(DefaultConfig, init.InitializationOptions)
        buildFlags == IF Len(config.BuildTags) > 0
                      THEN <<"-tags", Join(config.BuildTags, " ")>> ELSE <<>>
    IN [h EXCEPT !.mu = TRUE,
                 !.hConfig = [set |-> TRUE, c |-> config],
                 !.localPrefix = config.GoimportsLocalPrefix,
                 !.hInit = [set |-> TRUE, RootPath |-> init.RootPath,
                            InitializationOptions |-> init.InitializationOptions],
                 !.hCancel = NewCancel(h.hCancel),
                 !.hProject = [gen |-> h.hProject.gen + 1, rootPath |-> init.RootPath,
                               buildFlags |-> buildFlags,
                               cacheStyle |-> DefaultConfig.GlobalCacheStyle],
                 !.hOverlay = [set |-> TRUE, style |-> DefaultConfig.DiagnosticsStyle],
                 !.err = initErr]

\* doInit, lines 364-389: line 370 releases h.mu however the function ends
doInit(h, init, initErr) == [doInitLocked(h, init, initErr) EXCEPT !.mu = FALSE]

\* case "initialize", lines 121-168
CaseInitialize(h, req, initErr) ==
    IF AlreadyInitialized(h.hInit) THEN [h EXCEPT !.err = ErrAlreadyInitialized]
    ELSE IF req.Params.kind = "nil" THEN [h EXCEPT !.err = ErrInvalidParams]
    ELSE IF req.Params.kind = "bad" THEN [h EXCEPT !.err = ErrUnmarshal]
    ELSE LET p == req.Params.val
             root == IF p.RootPath # "" /\ ~IsURI(p.RootPath) THEN PathToURI(p.RootPath)
                     ELSE p.RootPath
         IN doInit(h, [p EXCEPT !.RootPath = root], initErr)

\* case "$/cancelRequest" if it reported an id that the registry does not hold
CaseCancelRequestStrict(h, req, cancelManager) ==
    IF req.Params.kind # "ok" \/ cancelManager.gen = 0 THEN h
    ELSE IF req.Params.val.ID \notin cancelManager.m THEN [h EXCEPT !.err = ErrHandler]
    ELSE [h EXCEPT !.hCancel = CancelID(@, req.Params.val.ID)]

\* case "$/cancelRequest", lines 184-201; cancelManager is the registry of line 100
CaseCancelRequest(h, req, cancelManager) ==
    IF req.Params.kind # "ok" \/ cancelManager.gen = 0 THEN h
    ELSE IF cancelManager.gen = h.hCancel.gen
    THEN [h EXCEPT !.hCancel = CancelID(@, req.Params.val.ID)]
    ELSE h

\* the query cases, lines 203-352: outcome is what the handle... function does
CaseQuery(h, req, outcome) ==
    IF req.Params.kind = "nil" THEN [h EXCEPT !.err = ErrInvalidParams]
    ELSE IF req.Params.kind = "bad" THEN [h EXCEPT !.err = ErrUnmarshal]
    ELSE [h EXCEPT !.err = outcome]

\* the switch of lines 120-360
Switch(h, req, cancelManager, outcome, initErr) ==
    CASE req.Method = "initialize" -> CaseInitialize(h, req, initErr)
      [] req.Method = "initialized" -> h
      [] req.Method = "shutdown" ->
            [h EXCEPT !.shutdown = ShutDown(h.shutdown, h.logged).shutdown,
                      !.logged = ShutDown(h.shutdown, h.logged).logged]
      [] req.Method = "exit" -> [h EXCEPT !.connClosed = TRUE]
      [] req.Method = "$/cancelRequest" -> CaseCancelRequest(h, req, cancelManager)
      [] req.Method \in QueryMethods -> CaseQuery(h, req, outcome)
      [] req.Method \in FileSystemMethods -> [h EXCEPT !.err = outcome]
      [] OTHER -> [h EXCEPT !.err = ErrMethodNotFound]

Outcomes == {NoErr, ErrHandler, ErrPanic}

\* what project.Init does: it returns nil or an error, or panics
InitErrs == {NoErr, ErrProjectInit, ErrPanic}

\* Lines 120-360 and the deferred calls of lines 93-97 and 117: the case of the
\* switch runs, the request is taken out of the registry it was put in, and a
\* panic has become the error.
HandleReturn(outcome, initErr) ==
    LET req == cur
        \* the registry read at line 100: no case but doInit's sets h.cancel
        cancelManager == hCancel
        h1 == Switch(Handler, req, cancelManager, outcome, initErr)
        h2 == IF req.registered /\ h1.hCancel.gen = cancelManager.gen
              THEN [h1 EXCEPT !.hCancel = CancelFunc(@, req.ID)]
              ELSE h1
    IN /\ cur.active
       /\ cur' = NoReq
       /\ hInit' = h2.hInit
       /\ hConfig' = h2.hConfig
       /\ hCancel' = h2.hCancel
       /\ hProject' = h2.hProject
       /\ hOverlay' = h2.hOverlay
       /\ localPrefix' = h2.localPrefix
       /\ shutdown' = h2.shutdown
       /\ logged' = h2.logged
       /\ connClosed' = h2.connClosed
       /\ mu' = h2.mu
       /\ initOK' = (initOK \/ (req.Method = "initialize" /\ h2.err = NoErr))
       /\ resp' = [Method |-> req.Method, Notif |-> req.Notif, ID |-> req.ID,
                   kind |-> req.Params.kind, err |-> Panicf(h2.err, req.Method),
                   admitted |-> TRUE, wasInitOK |-> req.wasInitOK,
                   wasShutdown |-> req.wasShutdown,
                   kept |-> (<<h2.hConfig, h2.hCancel, h2.hProject>> = req.pre),
                   closed |-> h2.connClosed]
       /\ UNCHANGED <<dvars, lvars, cvars>>

\* ------------------------------------------------------------------ lspHandler
\* The messages of the dispatcher's model: the document notifications and the
\* queries. A message is known by its number in the order of receipt.
DispatchMethods == FileSystemMethods \cup QueryMethods

\* lspHandler.Handle that starts a goroutine for every message
SpawnsAll(method) == TRUE

\* lspHandler.Handle, lines 56-63: whether the message is handled in a
\* goroutine of its own. Line 62 calls h.Handler.Handle in the goroutine of
\* the caller, the connection's read loop, for every method.
Spawns(method) == FALSE

\* the messages that are in their handlers
InHandler == spawned \cup (IF loop = 0 THEN {} ELSE {loop})

\* the client sends a message
Receive(method) ==
    /\ Len(received) < MaxMsgs
    /\ received' = Append(received, method)
    /\ UNCHANGED <<read, loop, spawned, doc, done, hvars, lvars, cvars>>

\* The read loop reads the next message and calls lspHandler.Handle, which it
\* does when its last call has returned.
HandleCall ==
    /\ loop = 0
    /\ read < Len(received)
    /\ read' = read + 1
    /\ IF Spawns(received[read + 1])
       THEN spawned' = spawned \cup {read + 1} /\ loop' = loop
       ELSE loop' = read + 1 /\ spawned' = spawned
    /\ UNCHANGED <<received, doc, done, hvars, lvars, cvars>>

\* The handler of message i returns; a document notification has then been
\* applied (handleFileSystemRequest, line 355).
HandlerReturns(i) ==
    /\ i \in InHandler
    /\ loop' = IF i = loop THEN 0 ELSE loop
    /\ spawned' = spawned \ {i}
    /\ doc' = IF received[i] \in FileSystemMethods THEN Append(doc, i) ELSE doc
    /\ done' = Append(done, i)
    /\ UNCHANGED <<received, read, hvars, lvars, cvars>>

InitDispatch ==
    /\ received = <<>>
    /\ read = 0
    /\ loop = 0
    /\ spawned = {}
    /\ doc = <<>>
    /\ done = <<>>

NextDispatch ==
    \/ \E method \in DispatchMethods : Receive(method)
    \/ HandleCall
    \/ \E i \in 1..MaxMsgs : HandlerReturns(i)

InitSession ==
    /\ hInit = NilInit
    /\ hConfig = NilConfig
    /\ hCancel = NilCancel
    /\ hProject = NilProject
    /\ hOverlay = NilOverlay
    /\ localPrefix = ""
    /\ shutdown = FALSE
    /\ logged = FALSE
    /\ connClosed = FALSE
    /\ cur = NoReq
    /\ resp = NoResp
    /\ initOK = FALSE
    /\ mu = FALSE

NextSession ==
    \/ \E req \in Requests : HandleRejected(req)
    \/ \E req \in Requests : HandleAdmitted(req)
    \/ \E outcome \in Outcomes, initErr \in InitErrs : HandleReturn(outcome, initErr)

Init == InitCache /\ InitSession /\ InitDispatch /\ InitLock

Next == NextCache

Spec == Init /\ [][Next]_vars

SpecSession == Init /\ [][NextSession]_vars

SpecDispatch == Init /\ [][NextDispatch]_vars

SpecLock == Init /\ [][NextLock]_vars

\* Walk, on the caches that Put makes; Walk reads no time stamp, so os.Stat
\* gives one answer here
NextWalk ==
    \/ \E n \in Nodes : Put(n, StatFound)
    \/ \E ranks \in RankLists, snapshot \in Snapshots, fails \in FailSets :
          Walk(ranks, snapshot, fails)

SpecWalk == Init /\ [][NextWalk]_vars

\* ------------------------------------------------------------------ the claims
Live == {idMap[id] : id \in DOMAIN idMap}

Unit(p) == pkgs[p.pkg]

\* C1: the three indices agree: a *GlobalPackage is in the id index exactly
\* when the path index maps its pkgPath to it and the file index maps each of
\* its lower-cased files to it, and every entry of the path and file indices
\* is a *GlobalPackage of the id index.
C1_IndicesAgree ==
    /\ \A p \in Live :
          /\ GPGet(pathMap, Unit(p).pkgPath) = p
          /\ \A k \in FileKeys(Unit(p)) : GPGet(fileMap, k) = p
    /\ \A k \in DOMAIN pathMap : pathMap[k] \in Live
    /\ \A k \in DOMAIN fileMap : fileMap[k] \in Live

\* C2: no two units of the id index have the same pkgPath, and no two have a
\* file in common; the file index holds the unit put last.
C2_OneLiveUnitPerPathAndFile ==
    \A p, q \in Live :
        p # q => /\ Unit(p).pkgPath # Unit(q).pkgPath
                 /\ FileKeys(Unit(p)) \cap FileKeys(Unit(q)) = {}

\* the *Package objects a step allocates
New == (Len(pkgs) + 1)..Len(pkgs')

AddReturned == last'.op = "Add" /\ ~crashed'

\* the nodes of the graph Add was given
Graph == Reach({last'.n}, Cardinality(Nodes))

\* C3: Add of a graph with a cycle, none of whose units is cached, returns,
\* and afterwards every unit of the graph is cached and its dependency map
\* holds the cached unit of each of its imports.
C3_CycleIngests ==
    [][(/\ last'.op = "Add"
        /\ last'.n \in {4, 5}
        /\ \A m \in Graph : Node(m).ID \notin DOMAIN idMap)
       => /\ ~crashed'
          /\ \A m \in Graph :
                /\ Node(m).ID \in DOMAIN idMap'
                /\ \A c \in Node(m).Imports :
                      /\ Node(c).PkgPath \in DOMAIN pkgs'[idMap'[Node(m).ID].pkg].imports
                      /\ pkgs'[idMap'[Node(m).ID].pkg].imports[Node(c).PkgPath]
                            = idMap'[Node(c).ID].pkg]_vars

\* the node of the graph that a new *Package was created from
NodeFor(a) == CHOOSE m \in Graph : Node(m).ID = pkgs'[a].id

\* C4: ingestion de-duplicates by id. In an Add that returns, no id is created
\* twice and no cached id is created again or stored again; every created
\* unit is the one the id index holds for its id; and the dependency map of
\* every created unit holds, under the PkgPath of each of its imports, the one
\* unit the id index holds for that import's id. So a unit imported by two
\* units, ingested in one Add or in two, is stored once and both dependency
\* maps hold that stored unit.
C4_DedupById ==
    [][AddReturned =>
        /\ \A a, b \in New : pkgs'[a].id = pkgs'[b].id => a = b
        /\ \A a \in New : /\ pkgs'[a].id \notin DOMAIN idMap
                          /\ idMap'[pkgs'[a].id].pkg = a
        /\ \A id \in DOMAIN idMap : id \in DOMAIN idMap' /\ idMap'[id] = idMap[id]
        /\ \A a \in New : \A c \in Node(NodeFor(a)).Imports :
              /\ Node(c).ID \in DOMAIN idMap'
              /\ Node(c).PkgPath \in DOMAIN pkgs'[a].imports
              /\ pkgs'[a].imports[Node(c).PkgPath] = idMap'[Node(c).ID].pkg]_vars

\* Both m/a and m/b are cached and their dependency maps hold the cached x.y.
C4_Witness ==
    /\ last.op = "Add"
    /\ \E a1, a2 \in DOMAIN pkgs :
          /\ a1 # a2
          /\ {a1, a2} \subseteq {idMap[id].pkg : id \in DOMAIN idMap}
          /\ "x.y" \in DOMAIN pkgs[a1].imports
          /\ "x.y" \in DOMAIN pkgs[a2].imports
          /\ pkgs[a1].imports["x.y"] = pkgs[a2].imports["x.y"]
          /\ GPGet(idMap, Node(3).ID).pkg = pkgs[a1].imports["x.y"]

\* C5: right after Delete of a cached unit, Get of its pkgPath and GetByURI of
\* each of its files find nothing; and when the next call is an Add that
\* returns and whose root has the unit's id and pkgPath, Get of that pkgPath
\* is a unit that Add created, not the deleted one.
C5_DeleteThenAdd ==
    [][\A path \in PkgPaths :
        /\ (/\ last'.op = "Delete"
            /\ last'.pkg # Nil
            /\ path = pkgs[last'.pkg].pkgPath) =>
               /\ Get(path)' = NilGP
               /\ \A f \in FileNames :
                     f \in Range(pkgs[last'.pkg].files) => GetByURI(f)' = Nil
        /\ (/\ last.op = "Delete"
            /\ last.pkg # Nil
            /\ path = pkgs[last.pkg].pkgPath
            /\ AddReturned
            /\ Node(last'.n).ID = pkgs[last.pkg].id
            /\ Node(last'.n).PkgPath = path) =>
               /\ Get(path)'.pkg \in New
               /\ Get(path)'.pkg # last.pkg
               /\ pkgs'[Get(path)'.pkg].id = pkgs[last.pkg].id]_vars

\* A cached unit was deleted, and an Add of its id has cached another unit
\* under its pkgPath.
C5_Witness ==
    /\ last.op = "Add"
    /\ last.pkg # Nil
    /\ \E a \in DOMAIN pkgs :
          /\ a < last.pkg
          /\ pkgs[a].id = Node(last.n).ID
          /\ Get(pkgs[a].pkgPath).pkg = last.pkg

Returned == resp.Method # ""

\* C6: the gate of the life cycle. A message other than initialize that
\* arrives before an initialize has succeeded is answered NotInitialized and
\* does not reach the switch; one that arrives after an initialize has
\* succeeded and before shutdown reaches the switch; after shutdown every
\* method but exit is answered ShuttingDown.
C6_LifecycleGate ==
    /\ (cur.active /\ cur.Method # "initialize") => cur.wasInitOK
    /\ (Returned /\ resp.Method # "initialize" /\ ~resp.wasInitOK) =>
          resp.err = ErrMustBeInitialized /\ ~resp.admitted
    /\ (Returned /\ resp.wasInitOK /\ ~resp.wasShutdown) => resp.admitted
    /\ (Returned /\ resp.wasShutdown /\ resp.Method # "exit") =>
          resp.err = ErrIsShuttingDown /\ ~resp.admitted

\* C7: exit returns no error and closes the connection, whatever the state it
\* arrives in.
C7_ExitAlwaysCloses ==
    (Returned /\ resp.Method = "exit") => resp.err = NoErr /\ resp.closed

\* C8, as claimed: an initialize that arrives after one has succeeded is
\* answered AlreadyInitialized and leaves the config, the registry and the
\* project with its cache as they were.
C8_SecondInitializeAlreadyInitialized ==
    (Returned /\ resp.Method = "initialize" /\ resp.wasInitOK) =>
        resp.err = ErrAlreadyInitialized /\ resp.kept

\* C8, amended: an initialize that arrives after one has succeeded fails, with
\* AlreadyInitialized before shutdown and with ShuttingDown after it, and
\* leaves the config, the registry and the project with its cache as they
\* were; the session is initialized at most once.
C8_SecondInitializeFails ==
    /\ (Returned /\ resp.Method = "initialize" /\ resp.wasInitOK) =>
          /\ resp.err = IF resp.wasShutdown THEN ErrIsShuttingDown ELSE ErrAlreadyInitialized
          /\ resp.kept
    /\ hProject.gen <= 1
    /\ hCancel.gen <= 1

C8_Witness ==
    /\ Returned
    /\ resp.Method = "initialize"
    /\ resp.wasInitOK
    /\ ~resp.wasShutdown
    /\ resp.admitted
    /\ hConfig.c # DefaultConfig

InFlight == IF cur.active /\ ~cur.Notif THEN {cur.ID} ELSE {}

\* C10, as claimed: every message with an id that is in its handler, the
\* initialize request too, is in the registry, and the registry holds the ids
\* of the requests in their handlers and nothing else.
C10_EveryRequestRegistered ==
    /\ cur.active /\ ~cur.Notif => hCancel.gen # 0 /\ cur.ID \in hCancel.m
    /\ hCancel.m = InFlight

\* C10, amended: every message with an id that is in its handler is in the
\* registry, but for the initialize request that is yet to make the registry;
\* the registry holds the ids of those requests and nothing else, and is empty
\* when Handle has returned.
C10_RequestRegisteredOnceRegistryExists ==
    /\ (cur.active /\ ~cur.Notif /\ hCancel.gen # 0) => cur.ID \in hCancel.m /\ cur.registered
    /\ (cur.active /\ ~cur.Notif /\ hCancel.gen = 0) => cur.Method = "initialize" /\ ~hInit.set
    /\ hCancel.m = IF hCancel.gen # 0 THEN InFlight ELSE {}
    /\ ~cur.active => hCancel.m = {}

C10_Witness == cur.active /\ cur.Method # "initialize" /\ cur.ID \in hCancel.m

\* the lifecycle state of the session: the init marker and the shutdown flag
Lifecycle == <<hInit, shutdown>>

\* C11, as claimed: a $/cancelRequest notification for an id that is not
\* registered never returns an error, and leaves the registry, the lifecycle
\* state and the cache as they were.
C11_CancelUnknownNeverFails ==
    (Returned /\ resp.Method = "$/cancelRequest" /\ resp.Notif) =>
        resp.err = NoErr /\ resp.kept

\* C11, amended: a $/cancelRequest notification for an id that is not
\* registered, once it has passed the lifecycle gate, returns no error and
\* leaves the registry, the lifecycle state, the project and the cache as they
\* were; the gate answers it NotInitialized or ShuttingDown like any other
\* message, and changes nothing either.
C11_CancelUnknownIsNoOp ==
    [][/\ (cur.active /\ cur.Method = "$/cancelRequest" /\ cur.Notif
             /\ (cur.Params.kind = "ok" => cur.Params.val.ID \notin hCancel.m)) =>
                /\ resp'.err = NoErr
                /\ hCancel' = hCancel
                /\ Lifecycle' = Lifecycle
                /\ hProject' = hProject
                /\ cvars' = cvars
       /\ (resp'.Method = "$/cancelRequest" /\ ~resp'.admitted) =>
                /\ resp'.err \in {ErrMustBeInitialized, ErrIsShuttingDown}
                /\ hCancel' = hCancel
                /\ Lifecycle' = Lifecycle
                /\ cvars' = cvars]_vars

C11_Witness ==
    /\ Returned
    /\ resp.Method = "$/cancelRequest"
    /\ resp.Notif
    /\ resp.kind = "ok"
    /\ resp.admitted
    /\ resp.err = NoErr
    /\ hCancel.gen # 0

\* C12: when the handler logic of a request panics, Handle returns an error
\* that names the request's method, h.mu is free, the request is out of the
\* registry, and the session is as it was before the request: its lifecycle
\* state, its config and project, so that a later request is handled as if
\* the panic had not happened.
C12_PanicIsolated ==
    [][(cur.active /\ resp'.err = Panicf(ErrPanic, cur.Method)) =>
          /\ ~mu'
          /\ cur.ID \notin hCancel'.m
          /\ Lifecycle' = Lifecycle
          /\ <<hConfig', hProject'>> = <<cur.pre[1], cur.pre[3]>>
          /\ hCancel'.gen = cur.pre[2].gen]_vars

\* the value that initialize supplied for an option, or else the default
Supplied(opt, def) == IF opt = Absent THEN def ELSE opt

\* C17: after initialize, the value used for each option is the one the
\* initialize request supplied, or the default if it supplied none: the
\* build tags of the loader, the local import prefix, the cache style given
\* to project.Init and the diagnostics style given to the overlay.
C17_MergedConfigUsed ==
    hInit.set =>
        LET o == hInit.InitializationOptions
        IN /\ hProject.buildFlags =
                 (IF o.BuildTags = <<>> THEN <<>> ELSE <<"-tags", Join(o.BuildTags, " ")>>)
           /\ localPrefix = Supplied(o.GoimportsLocalPrefix, DefaultConfig.GoimportsLocalPrefix)
           /\ hProject.cacheStyle = Supplied(o.GlobalCacheStyle, DefaultConfig.GlobalCacheStyle)
           /\ hOverlay.style = Supplied(o.DiagnosticsStyle, DefaultConfig.DiagnosticsStyle)

\* C19: an initialize request that returns an error leaves the session
\* uninitialized: the config, the registry and the project are what they were,
\* and the init marker is set only if some initialize has succeeded.
C19_FailedInitializeLeavesUninitialized ==
    /\ (Returned /\ resp.Method = "initialize" /\ resp.err # NoErr) => resp.kept
    /\ hInit.set => initOK

\* C20: an Add whose root's id is cached leaves the three indices, with the
\* time stamps they record, and every *Package, with its imports, as they
\* were, and so ingests none of the root's imports, whatever the root is.
C20_AddOfCachedIdIsNoOp ==
    [][(last'.op = "Add" /\ ~crashed' /\ Node(last'.n).ID \in DOMAIN idMap) =>
          /\ pkgs' = pkgs
          /\ idMap' = idMap
          /\ pathMap' = pathMap
          /\ fileMap' = fileMap]_vars

\* Add was given node 1, whose id is cached for a unit with other files, and
\* node 1's import x.y has not been ingested
C20_Witness ==
    /\ last.op = "Add"
    /\ last.n = 1
    /\ last.pkg = Nil
    /\ Node(1).ID \in DOMAIN idMap
    /\ pkgs[idMap[Node(1).ID].pkg].files # Node(1).CompiledGoFiles
    /\ Node(3).ID \notin DOMAIN idMap

\* the rank of an id as the claim gives it: the index of the first prefix the
\* id starts with, else the number of prefixes if the id has a ".", else one more
ClaimedRank(id, prefixes) ==
    LET hits == {i \in 1..Len(prefixes) : HasPrefix(id, prefixes[i])}
    IN IF hits # {} THEN (CHOOSE i \in hits : \A j \in hits : i <= j) - 1
       ELSE IF \E i \in 1..Len(id) : id[i] = "." THEN Len(prefixes)
       ELSE Len(prefixes) + 1

\* a comes before b in the order of (rank, id)
Before(a, b, prefixes) ==
    \/ ClaimedRank(a, prefixes) < ClaimedRank(b, prefixes)
    \/ ClaimedRank(a, prefixes) = ClaimedRank(b, prefixes) /\ a # b /\ StrLeq(a, b)

\* the ids of the units that the last Walk handed to walkFunc
VisitedIds == [i \in 1..Len(last.visited) |-> pkgs[last.visited[i]].id]

\* C15: a Walk whose walkFunc never fails has handed to it every cached unit,
\* each once, in ascending order of (rank, id).
C15_WalkOrder ==
    (last.op = "Walk" /\ last.err = <<>>) =>
        /\ Len(last.visited) = Cardinality(DOMAIN idMap)
        /\ \A id \in DOMAIN idMap :
              \E i \in 1..Len(last.visited) :
                 VisitedIds[i] = id /\ last.visited[i] = idMap[id].pkg
        /\ \A i, j \in 1..Len(last.visited) :
              i < j => Before(VisitedIds[i], VisitedIds[j], last.ranks)

\* Walk with the prefix m/ has visited a unit under m/, then one with a ".",
\* then one with neither
C15_Witness ==
    /\ last.op = "Walk"
    /\ last.err = <<>>
    /\ last.ranks = << <<"m", "/">> >>
    /\ Len(last.visited) = 3
    /\ \A i \in 1..3 : ClaimedRank(VisitedIds[i], last.ranks) = i - 1

\* C16: a Walk whose walkFunc fails returns the error of the first unit, in
\* the order of (rank, id), that it fails on, has visited the units up to
\* that one and none after it, leaves the cache as it was and the lock free.
C16_WalkStopsAtFirstError ==
    [][(last'.op = "Walk" /\ last'.fails # {}) =>
          /\ <<pkgs', idMap', pathMap', fileMap'>> = <<pkgs, idMap, pathMap, fileMap>>
          /\ CanLock(cmu')
          /\ last'.err \in last'.fails
          /\ \A id \in last'.fails : id = last'.err \/ Before(last'.err, id, last'.ranks)
          /\ {pkgs[a].id : a \in Range(last'.visited)} =
                {id \in DOMAIN idMap : id = last'.err \/ Before(id, last'.err, last'.ranks)}
          /\ Len(last'.visited) = Cardinality(Range(last'.visited))
          /\ pkgs[last'.visited[Len(last'.visited)]].id = last'.err]_vars

\* walkFunc fails on two of three units; Walk stopped at the first of them,
\* which was not the first unit it visited
C16_Witness ==
    /\ last.op = "Walk"
    /\ last.err # <<>>
    /\ Cardinality(last.fails) = 2
    /\ Cardinality(DOMAIN idMap) = 3
    /\ Len(last.visited) = 2
    /\ CanLock(cmu)

\* the document notifications received before message i
MutationsBefore(i) == {k \in 1..(i - 1) : received[k] \in FileSystemMethods}

\* C13: the document notifications are applied in the order they were
\* received, and while a query is in its handler every document notification
\* received before it has been applied.
C13_MutationsInOrder ==
    /\ \A i, j \in 1..Len(doc) : i < j => doc[i] < doc[j]
    /\ \A q \in InHandler : received[q] \in QueryMethods => MutationsBefore(q) \subseteq Range(doc)
    /\ \A m \in InHandler : received[m] \in FileSystemMethods => MutationsBefore(m) \subseteq Range(doc)

\* two document notifications, then a query that is in its handler
C13_Witness ==
    /\ Len(received) >= 3
    /\ received[1] \in FileSystemMethods
    /\ received[2] \in FileSystemMethods
    /\ received[3] \in QueryMethods
    /\ doc = <<1, 2>>
    /\ loop = 3

\* C18: while a query is in its handler, the dispatcher can start the handler
\* of a query received after it.
C18_QueriesOverlap ==
    (/\ \E q \in InHandler : received[q] \in QueryMethods
     /\ read < Len(received)
     /\ received[read + 1] \in QueryMethods) => ENABLED HandleCall

\* goroutine g is in a mutation, between taking the lock and giving it back
Mutating(g) == thr[g].pc \in {"locked", "id", "path", "file"}

\* goroutine g is in a look-up, between taking the lock and giving it back
Looking(g) == thr[g].pc \in {"rlocked", "read"}

\* C14: no look-up holds the lock while a mutation is between its first step
\* and its last, and no two mutations are.
C14_MutationsAtomic ==
    \A g, h \in Goroutines :
        g # h => /\ ~(Mutating(g) /\ Mutating(h))
                 /\ ~(Looking(g) /\ Mutating(h))

\* Add of m/a, with its import x.y, has written idMap and not yet pathMap,
\* while a look-up waits for the lock
C14_Witness ==
    \E g, h \in Goroutines :
        /\ thr[g].call.op = "Add"
        /\ thr[g].call.arg.n = 1
        /\ thr[g].pc = "id"
        /\ Cardinality(DOMAIN idMap) = 2
        /\ DOMAIN pathMap = {}
        /\ thr[h].call.op = "Get"
        /\ thr[h].pc = "called"

\* C21: Delete and clean write the three indices only: no *Package changes,
\* and so not the imports of a unit that depends on the unit deleted. A later
\* Add or Put leaves the *Packages made before it as they were too, so that
\* the unit goes on referring to the *Package that was deleted when a new unit
\* with its id is cached.
C21_DeleteLeavesImports ==
    [][/\ last'.op \in {"Delete", "Clean"} => pkgs' = pkgs
       /\ (last'.op \in {"Add", "Put"} /\ ~crashed') =>
             \A a \in 1..Len(pkgs) : a <= Len(pkgs') /\ pkgs'[a] = pkgs[a]]_vars

\* m/a was ingested with its import x.y, x.y was deleted and then ingested
\* again: m/a, still cached, refers to the first x.y, which is not the unit
\* cached under that id
C21_Witness ==
    /\ last.op = "Add"
    /\ last.n = 3
    /\ last.pkg # Nil
    /\ GPGet(idMap, Node(3).ID).pkg = last.pkg
    /\ \E a \in 1..Len(pkgs) :
          /\ GPGet(idMap, Node(1).ID).pkg = a
          /\ Node(3).PkgPath \in DOMAIN pkgs[a].imports
          /\ pkgs[a].imports[Node(3).PkgPath] # last.pkg
          /\ pkgs[pkgs[a].imports[Node(3).PkgPath]].id = Node(3).ID

\* goroutine g is inside Walk, between its c.RLock() and its return
Walking(g) == thr[g].call.op = "Walk" /\ thr[g].pc \in {"rlocked", "read"}

\* the units that are cached: those idMap leads to
CachedUnits == {idMap[id].pkg : id \in DOMAIN idMap} \ {Nil}

\* C22: Walk holds the shared lock from its snapshot until it returns, so no
\* Add, Put, Delete or clean takes effect during its visits: while a goroutine
\* is inside Walk the lock is held shared, no goroutine is inside a mutation,
\* and every unit the walk has handed to visit is a unit that is still cached,
\* never an absent one, whatever Delete calls run at the same time.
C22_WalkVisitsCached ==
    \A g \in Goroutines :
        Walking(g) =>
            /\ cmu.r > 0
            /\ \A h \in Goroutines : ~Mutating(h)
            /\ \A i \in 1..Len(thr[g].visited) :
                  /\ thr[g].visited[i] # Nil
                  /\ thr[g].visited[i] \in CachedUnits

\* a walk that has visited x.y and has ids left, while a Delete of x.y waits
\* for the lock
C22_Witness ==
    \E g, h \in Goroutines :
        /\ Walking(g)
        /\ thr[g].visited # <<>>
        /\ thr[g].ids # <<>>
        /\ GPGet(idMap, Node(3).ID).pkg \in {thr[g].visited[i] : i \in 1..Len(thr[g].visited)}
        /\ thr[h].call.op = "Delete"
        /\ thr[h].call.arg.id = Node(3).ID
        /\ thr[h].pc = "called"

====
